---- MODULE Spec2Model ----
(***************************************************************************)
(* A model of BT::Blackboard (include/behaviortree_cpp/blackboard.h): a    *)
(* tree of key-value stores with per-key type locks, key remapping to the  *)
(* parent and one mutex per instance.                                      *)
(*                                                                         *)
(* Spec      every member function is one atomic step (sequential calls).  *)
(* SpecConc  the same member functions split at their lock operations and  *)
(*           run by several threads.                                       *)
(***************************************************************************)
EXTENDS Integers, FiniteSets, Sequences, TLC

\* ------------------------------------------------------------------ bounds

\* Calls made in one behaviour of Spec.
MaxOps == 3
\* Distinct payloads per value type.
MaxVal == 1

\* ----------------------------------------------------------------- domains

\* The Blackboard instances, numbered in the order create() made them.
Boards == {1, 2, 3}
\* An empty Blackboard::Ptr / an expired weak_ptr.
NoBoard == 0
Keys == {"a", "x"}
\* The static types T that set<T>, get<T> and setPortType are used with.
Types == {"int", "int64_t", "std::string"}
\* A null std::type_info pointer.
NoType == "nullptr"
Values == [type : Types, val : 1..MaxVal]

\* The type an Any built from a T reports: integers are held as int64_t,
\* strings as SimpleString.
AnyType(T) ==
    CASE T = "int" -> "int64_t"
      [] T = "int64_t" -> "int64_t"
      [] T = "std::string" -> "SimpleString"

\* AnyOf(value)
AnyOf(value) == [type |-> AnyType(value.type), val |-> value.val]
\* Any(): holds nothing.
EmptyAny == [type |-> "void", val |-> 0]
isString(any) == any.type = "SimpleString"

\* Entry(const std::type_info* type): no value, the given type.
EntryOfType(type) == [value |-> EmptyAny, locked_port_type |-> type]
\* Entry(Any&& other_any) taking the type of the value as its type.
EntryOfAnyLocksType(any) == [value |-> any, locked_port_type |-> any.type]

\* Entry(Any&& other_any): the value, type = nullptr.
EntryOfAny(any) == [value |-> any, locked_port_type |-> NoType]

EmptyMap == [k \in {} |-> k]
Insert(map, k, e) == [x \in DOMAIN map \cup {k} |-> IF x = k THEN e ELSE map[x]]
\* unordered_map::insert / emplace: no effect when the key is there.
InsertNew(map, k, e) == IF k \in DOMAIN map THEN map ELSE Insert(map, k, e)

\* What a call returns or throws.
Ok == [kind |-> "void"]
NullPtr == [kind |-> "nullptr"]
PtrTo(b, k) == [kind |-> "ptr", bb |-> b, key |-> k]
Returned(T, v) == [kind |-> "value", type |-> T, val |-> v]
True == [kind |-> "true"]
False == [kind |-> "false"]
MissingKey == [kind |-> "RuntimeError:MissingKey"]
BadCast == [kind |-> "BadCast"]
TypeLockViolation == [kind |-> "LogicError:TypeLockViolation"]

VARIABLES
    storage_,              \* [Boards -> [subset of Keys -> Entry]]
    internal_to_external_, \* [Boards -> [subset of Keys -> Keys]]
    parent_bb_,            \* [Boards -> Boards \cup {NoBoard}]
    alive,                 \* the Blackboards some shared_ptr still owns
    last,                  \* the call that ended last, with what it returned
    nops,                  \* calls made so far
    mutex_,                \* [Boards -> thread holding the mutex, or NoThread]
    thr                    \* [Threads -> the call a thread is in]

vars == <<storage_, internal_to_external_, parent_bb_, alive, last, nops, mutex_, thr>>
store == <<storage_, internal_to_external_, parent_bb_, alive>>

\* ------------------------------------------------------- member functions

\* The parent as a plain pointer, destroyed or not.
ParentLockUnchecked(b) == parent_bb_[b]

\* parent_bb_.lock(): the parent, or NoBoard when there is none or it is gone.
ParentLock(b) ==
    IF parent_bb_[b] # NoBoard /\ parent_bb_[b] \in alive
    THEN parent_bb_[b] ELSE NoBoard

\* Forwarding only while the key has no Entry of its own.
ForwardsUnlessLocalEntry(b, key) ==
    /\ ParentLock(b) # NoBoard
    /\ key \in DOMAIN internal_to_external_[b]
    /\ key \notin DOMAIN storage_[b]

\* if( auto parent = parent_bb_.lock() ) with a remapping found for key.
Forwards(b, key) ==
    ParentLock(b) # NoBoard /\ key \in DOMAIN internal_to_external_[b]

\* getAny(key) of every Blackboard: a pointer to the Any of the Entry, not a
\* copy of it.
getAnyOf[b \in Boards, key \in Keys] ==
    IF Forwards(b, key)
    THEN getAnyOf[ParentLock(b), internal_to_external_[b][key]]
    ELSE IF key \in DOMAIN storage_[b] THEN PtrTo(b, key) ELSE NullPtr

getAny(b, key) == getAnyOf[b, key]

\* val->cast<T>()
cast(any, T) ==
    IF any.type = AnyType(T) THEN Returned(T, any.val) ELSE BadCast

Deref(st, ptr) == st[ptr.bb][ptr.key].value

\* T get(key): throws when the key is missing.
get(b, key, T) ==
    LET val == getAny(b, key)
    IN  IF val # NullPtr THEN cast(Deref(storage_, val), T) ELSE MissingKey

\* bool get(key, T& value) clearing the caller's variable before the lookup.
tryGetClearsValue(b, key, T, out) ==
    LET val == getAny(b, key)
    IN  IF val = NullPtr THEN [ret |-> False, value |-> [type |-> T, val |-> 0]]
        ELSE LET c == cast(Deref(storage_, val), T)
             IN  IF c = BadCast THEN [ret |-> BadCast, value |-> out]
                 ELSE [ret |-> True, value |-> c]

\* bool get(key, T& value): [ret, value], value being the caller's variable.
tryGet(b, key, T, out) ==
    LET val == getAny(b, key)
    IN  IF val = NullPtr THEN [ret |-> False, value |-> out]
        ELSE LET c == cast(Deref(storage_, val), T)
             IN  IF c = BadCast THEN [ret |-> BadCast, value |-> out]
                 ELSE [ret |-> True, value |-> c]

\* The type check with the test for a string inverted.
LockViolatedStringOnly(entry, T, temp) ==
    LET locked_type == entry.locked_port_type
    IN  /\ locked_type # NoType
        /\ locked_type # T
        /\ locked_type # temp.type
        /\ isString(temp)

\* The type check without the exemption of strings.
LockViolatedNoStringExemption(entry, T, temp) ==
    LET locked_type == entry.locked_port_type
    IN  /\ locked_type # NoType
        /\ locked_type # T
        /\ locked_type # temp.type

\* The type check of set on an Entry that is already there.
LockViolated(entry, T, temp) ==
    LET locked_type == entry.locked_port_type
    IN  /\ locked_type # NoType
        /\ locked_type # T
        /\ locked_type # temp.type
        /\ ~isString(temp)

\* set building a new Entry (without a locked type) over the one that is there.
setLocalNewEntry(st, b, key, value) ==
    IF key \in DOMAIN st[b] /\ LockViolated(st[b][key], value.type, AnyOf(value))
    THEN [storage |-> st, result |-> TypeLockViolation]
    ELSE [storage |-> [st EXCEPT ![b] = Insert(st[b], key, EntryOfAny(AnyOf(value)))],
          result |-> Ok]

\* set leaving the Any of an Entry that is already there as it was.
setLocalKeepsValue(st, b, key, value) ==
    IF key \in DOMAIN st[b]
    THEN IF LockViolated(st[b][key], value.type, AnyOf(value))
         THEN [storage |-> st, result |-> TypeLockViolation]
         ELSE [storage |-> st, result |-> Ok]
    ELSE [storage |-> [st EXCEPT ![b] = Insert(st[b], key, EntryOfAny(AnyOf(value)))],
          result |-> Ok]

\* set writing to storage shared with the Blackboards of the same parent.
setLocalSharedStorage(st, b, key, value) ==
    LET e == EntryOfAny(AnyOf(value))
    IN  [storage |-> [c \in Boards |->
                        IF c \in alive /\ parent_bb_[c] = parent_bb_[b]
                        THEN Insert(st[c], key, e) ELSE st[c]],
         result |-> Ok]

\* set on an Entry of this Blackboard (no forwarding).
setLocal(st, b, key, value) ==
    IF key \in DOMAIN st[b]
    THEN LET temp == AnyOf(value)
         IN  IF LockViolated(st[b][key], value.type, temp)
             THEN [storage |-> st, result |-> TypeLockViolation]
             ELSE [storage |-> [st EXCEPT ![b][key].value = temp], result |-> Ok]
    ELSE [storage |-> [st EXCEPT ![b] = Insert(st[b], key, EntryOfAny(AnyOf(value)))],
          result |-> Ok]

\* A forwarding set writing its type over the Entry that is there.
setPlaceholderOverwrites(st, b, key, T) ==
    [st EXCEPT ![b] = Insert(st[b], key, EntryOfType(T))]

\* The Entry a forwarding set leaves on the forwarding Blackboard.
setPlaceholder(st, b, key, T) ==
    [st EXCEPT ![b] = InsertNew(st[b], key, EntryOfType(T))]

RECURSIVE set(_, _, _, _)
\* set forwarding under the internal key instead of the remapped one.
setInternalKey(st, b, key, value) ==
    IF Forwards(b, key)
    THEN set(setPlaceholder(st, b, key, value.type), ParentLock(b), key, value)
    ELSE setLocal(st, b, key, value)

\* set forwarding one level only: the parent writes its own Entry.
setOneHop(st, b, key, value) ==
    IF Forwards(b, key)
    THEN setLocal(setPlaceholder(st, b, key, value.type),
                  ParentLock(b), internal_to_external_[b][key], value)
    ELSE setLocal(st, b, key, value)

\* set running the type check on its own Entry before it forwards.
setChecksOwnEntry(st, b, key, value) ==
    IF Forwards(b, key)
    THEN IF key \in DOMAIN st[b] /\ LockViolated(st[b][key], value.type, AnyOf(value))
         THEN [storage |-> st, result |-> TypeLockViolation]
         ELSE set(setPlaceholder(st, b, key, value.type),
                  ParentLock(b), internal_to_external_[b][key], value)
    ELSE setLocal(st, b, key, value)

\* set<T>(key, value) on storage st: the storage it leaves and what it returns.
set(st, b, key, value) ==
    IF Forwards(b, key)
    THEN set(setPlaceholder(st, b, key, value.type),
             ParentLock(b), internal_to_external_[b][key], value)
    ELSE setLocal(st, b, key, value)

\* setPortType(key, new_type): the first type declared for an Entry stays.
setPortType(st, b, key, new_type) ==
    IF key \in DOMAIN st[b]
    THEN IF st[b][key].locked_port_type = NoType
         THEN [st EXCEPT ![b][key].locked_port_type = new_type]
         ELSE st
    ELSE [st EXCEPT ![b] = Insert(st[b], key, EntryOfType(new_type))]

\* addSubtreeRemapping(internal, external)
addSubtreeRemapping(ite, b, internal, external) ==
    [ite EXCEPT ![b] = InsertNew(ite[b], internal, external)]

\* ------------------------------------------------------------ Spec: calls

NoThread == 0
NumThreads == 2
Threads == 1..NumThreads
NoValue == [type |-> NoType, val |-> 0]
\* A thread in no call: pc is the place of a thread in its call, op/bb/key/value
\* the call, cur/curkey the Blackboard and key of the innermost frame, held the
\* Blackboards whose unique_lock a frame of the call holds (outermost first),
\* map the storage_ that an insert in progress found, ret what the call returned.
Idle ==
    [pc |-> "idle", op |-> "none", bb |-> NoBoard, key |-> "", value |-> NoValue,
     cur |-> NoBoard, curkey |-> "", held |-> <<>>, map |-> EmptyMap, ret |-> Ok]

NoCall == [op |-> "none", bb |-> NoBoard, key |-> "", type |-> NoType, val |-> 0,
           result |-> Ok]
Call(op, b, key, T, v, result) ==
    [op |-> op, bb |-> b, key |-> key, type |-> T, val |-> v, result |-> result]

\* The trees create() can have made with the first Blackboard as the root:
\* every other Blackboard was created with an older one as its parent.
Trees ==
    {p \in [Boards -> Boards \cup {NoBoard}] :
        \A b \in Boards : p[b] < b /\ (p[b] = NoBoard <=> b = 1)}

Init ==
    /\ storage_ = [b \in Boards |-> EmptyMap]
    /\ internal_to_external_ = [b \in Boards |-> EmptyMap]
    /\ parent_bb_ \in Trees
    /\ alive = Boards
    /\ last = NoCall
    /\ nops = 0
    /\ mutex_ = [b \in Boards |-> NoThread]
    /\ thr = [t \in Threads |-> Idle]

Called(call) ==
    /\ nops < MaxOps
    /\ nops' = nops + 1
    /\ last' = call
    /\ UNCHANGED <<parent_bb_, mutex_, thr>>

\* A call of set with what it found where it wrote: found is it != storage_.end()
\* on the Blackboard that did not forward, previous_any the Any that was there.
CallOfSet(b, key, value, result) ==
    LET it == getAny(b, key)
    IN  [op |-> "set", bb |-> b, key |-> key, type |-> value.type, val |-> value.val,
         result |-> result, found |-> it # NullPtr,
         previous_any |-> IF it # NullPtr THEN Deref(storage_, it) ELSE EmptyAny]

Set(b, key, value) ==
    LET r == set(storage_, b, key, value)
    IN  /\ b \in alive
        /\ storage_' = r.storage
        /\ Called(CallOfSet(b, key, value, r.result))
        /\ UNCHANGED <<internal_to_external_, alive>>

GetAny(b, key) ==
    /\ b \in alive
    /\ Called(Call("getAny", b, key, NoType, 0, getAny(b, key)))
    /\ UNCHANGED <<storage_, internal_to_external_, alive>>

Get(b, key, T) ==
    /\ b \in alive
    /\ Called(Call("get", b, key, T, 0, get(b, key, T)))
    /\ UNCHANGED <<storage_, internal_to_external_, alive>>

\* bool get(key, value) called with a variable holding out.
TryGet(b, key, out) ==
    LET r == tryGet(b, key, out.type, out)
    IN  /\ b \in alive
        /\ Called(Call("tryGet", b, key, out.type, out.val, r))
        /\ UNCHANGED <<storage_, internal_to_external_, alive>>

SetPortType(b, key, T) ==
    /\ b \in alive
    /\ storage_' = setPortType(storage_, b, key, T)
    /\ Called(Call("setPortType", b, key, T, 0, Ok))
    /\ UNCHANGED <<internal_to_external_, alive>>

AddSubtreeRemapping(b, internal, external) ==
    /\ b \in alive
    /\ internal_to_external_' = addSubtreeRemapping(internal_to_external_, b, internal, external)
    /\ Called(Call("addSubtreeRemapping", b, internal, NoType, 0, Ok))
    /\ UNCHANGED <<storage_, alive>>

\* The last owner of b drops it: ~Blackboard frees its maps; the weak_ptr of
\* its children expires.
Destroy(b) ==
    /\ b \in alive
    /\ alive' = alive \ {b}
    /\ storage_' = [storage_ EXCEPT ![b] = EmptyMap]
    /\ internal_to_external_' = [internal_to_external_ EXCEPT ![b] = EmptyMap]
    /\ Called(Call("destroy", b, "", NoType, 0, Ok))

Next ==
    \/ \E b \in Boards, key \in Keys, value \in Values : Set(b, key, value)
    \/ \E b \in Boards, key \in Keys : GetAny(b, key)
    \/ \E b \in Boards, key \in Keys, T \in Types : Get(b, key, T)
    \/ \E b \in Boards, key \in Keys, out \in Values : TryGet(b, key, out)
    \/ \E b \in Boards, key \in Keys, T \in Types : SetPortType(b, key, T)
    \/ \E b \in Boards, internal \in Keys, external \in Keys :
          AddSubtreeRemapping(b, internal, external)
    \/ \E b \in Boards : Destroy(b)

Spec == Init /\ [][Next]_vars

\* ------------------------------------------------- SpecConc: threads, locks

\* What reading an Any gives while another thread is assigning to it.
Garbage == [kind |-> "garbage"]

Enter(t, op, b, key, value) ==
    /\ thr[t].pc \in {"idle", "done"}
    /\ b \in alive
    /\ nops < MaxOps
    /\ nops' = nops + 1
    /\ thr' = [thr EXCEPT ![t] =
                 [pc |-> "lock", op |-> op, bb |-> b, key |-> key, value |-> value,
                  cur |-> b, curkey |-> key, held |-> <<>>, map |-> EmptyMap,
                  ret |-> Ok]]
    /\ UNCHANGED <<store, last, mutex_>>

\* A thread calls set, get or getAny.
CallSet(t, b, key, value) == Enter(t, "set", b, key, value)
CallGet(t, b, key) == Enter(t, "get", b, key, NoValue)
CallGetAny(t, b, key) == Enter(t, "getAny", b, key, NoValue)

\* Taking the mutex without waiting for it.
AcquireNoWait(t) ==
    /\ thr[t].pc = "lock"
    /\ mutex_' = [mutex_ EXCEPT ![thr[t].cur] = t]
    /\ thr' = [thr EXCEPT ![t].pc = "locked", ![t].held = Append(@, thr[t].cur)]
    /\ UNCHANGED <<store, last, nops>>

\* std::unique_lock<std::mutex> lock(mutex_) of the innermost frame: the
\* thread waits here while the mutex is held (by another thread or by itself).
Acquire(t) ==
    /\ thr[t].pc = "lock"
    /\ mutex_[thr[t].cur] = NoThread
    /\ mutex_' = [mutex_ EXCEPT ![thr[t].cur] = t]
    /\ thr' = [thr EXCEPT ![t].pc = "locked", ![t].held = Append(@, thr[t].cur)]
    /\ UNCHANGED <<store, last, nops>>

\* Forwarding to this Blackboard's own getAny / set instead of the parent's.
ForwardToSelf(t) ==
    [thr[t] EXCEPT !.pc = "lock",
                   !.curkey = internal_to_external_[thr[t].cur][thr[t].curkey],
                   !.map = EmptyMap]

\* The frame the body forwards to: parent->getAny / parent->set.
Forward(t) ==
    [thr[t] EXCEPT !.pc = "lock", !.cur = ParentLock(thr[t].cur),
                   !.curkey = internal_to_external_[thr[t].cur][thr[t].curkey],
                   !.map = EmptyMap]

\* The body of getAny under the lock.
GetAnyBody(t) ==
    LET b == thr[t].cur
        key == thr[t].curkey
    IN  /\ thr[t].pc = "locked"
        /\ thr[t].op \in {"get", "getAny"}
        /\ thr' = [thr EXCEPT ![t] =
                     IF Forwards(b, key) THEN Forward(t)
                     ELSE [thr[t] EXCEPT !.pc = "unlock",
                             !.ret = IF key \in DOMAIN storage_[b]
                                     THEN PtrTo(b, key) ELSE NullPtr]]
        /\ UNCHANGED <<store, last, nops, mutex_>>

\* The body of set under the lock, up to its write: the find, the look for a
\* remapping and the type check. An insert goes on from the map as found here.
SetBody(t) ==
    LET b == thr[t].cur
        key == thr[t].curkey
        value == thr[t].value
        found == key \in DOMAIN storage_[b]
    IN  /\ thr[t].pc = "locked"
        /\ thr[t].op = "set"
        /\ thr' = [thr EXCEPT ![t] =
             IF Forwards(b, key)
             THEN IF found THEN Forward(t)
                  ELSE [thr[t] EXCEPT !.pc = "insert", !.map = storage_[b]]
             ELSE IF found
             THEN IF LockViolated(storage_[b][key], value.type, AnyOf(value))
                  THEN [thr[t] EXCEPT !.pc = "unlock", !.ret = TypeLockViolation]
                  ELSE [thr[t] EXCEPT !.pc = "assign"]
             ELSE [thr[t] EXCEPT !.pc = "emplace", !.map = storage_[b]]]
        /\ UNCHANGED <<store, last, nops, mutex_>>

\* storage_.insert( {key, Entry( &typeid(T) )} ), then parent->set.
SetInsert(t) ==
    /\ thr[t].pc = "insert"
    /\ storage_' = [storage_ EXCEPT ![thr[t].cur] =
                      Insert(thr[t].map, thr[t].curkey, EntryOfType(thr[t].value.type))]
    /\ thr' = [thr EXCEPT ![t] = Forward(t)]
    /\ UNCHANGED <<internal_to_external_, parent_bb_, alive, last, nops, mutex_>>

\* storage_.emplace( key, Entry( Any(value) ) )
SetEmplace(t) ==
    /\ thr[t].pc = "emplace"
    /\ storage_' = [storage_ EXCEPT ![thr[t].cur] =
                      Insert(thr[t].map, thr[t].curkey, EntryOfAny(AnyOf(thr[t].value)))]
    /\ thr' = [thr EXCEPT ![t].pc = "unlock", ![t].ret = Ok, ![t].map = EmptyMap]
    /\ UNCHANGED <<internal_to_external_, parent_bb_, alive, last, nops, mutex_>>

\* previous_any = std::move(temp)
SetAssign(t) ==
    /\ thr[t].pc = "assign"
    /\ storage_' = [storage_ EXCEPT ![thr[t].cur][thr[t].curkey].value = AnyOf(thr[t].value)]
    /\ thr' = [thr EXCEPT ![t].pc = "unlock", ![t].ret = Ok]
    /\ UNCHANGED <<internal_to_external_, parent_bb_, alive, last, nops, mutex_>>

\* What a frame goes on with once every lock of the call is released.
AfterUnlock(t) == IF thr[t].op = "get" THEN "cast" ELSE "done"

\* Unlocking by hand at the return only: a throw leaves with the mutexes held.
UnlockOnReturnOnly(t) ==
    LET n == Len(thr[t].held)
    IN  /\ thr[t].pc = "unlock"
        /\ n > 0
        /\ IF thr[t].ret = TypeLockViolation
           THEN /\ mutex_' = mutex_
                /\ thr' = [thr EXCEPT ![t].held = <<>>, ![t].pc = "done"]
           ELSE /\ mutex_' = [mutex_ EXCEPT ![thr[t].held[n]] = NoThread]
                /\ thr' = [thr EXCEPT ![t].held = SubSeq(@, 1, n - 1),
                                      ![t].pc = IF n = 1 THEN AfterUnlock(t) ELSE "unlock"]
        /\ UNCHANGED <<store, last, nops>>

\* A frame returns or is unwound: its unique_lock releases the mutex.
Unlock(t) ==
    LET n == Len(thr[t].held)
    IN  /\ thr[t].pc = "unlock"
        /\ n > 0
        /\ mutex_' = [mutex_ EXCEPT ![thr[t].held[n]] = NoThread]
        /\ thr' = [thr EXCEPT ![t].held = SubSeq(@, 1, n - 1),
                              ![t].pc = IF n = 1 THEN AfterUnlock(t) ELSE "unlock"]
        /\ UNCHANGED <<store, last, nops>>

\* The threads assigning to the Any that ptr points to.
Writers(ptr) ==
    {w \in Threads : /\ thr[w].pc = "assign"
                     /\ thr[w].cur = ptr.bb /\ thr[w].curkey = ptr.key}

\* What val->cast<T>() of get can give: the pointer is read after getAny
\* has released every lock.
CastResults(t, T) ==
    LET ptr == thr[t].ret
    IN  IF ptr = NullPtr THEN {MissingKey}
        ELSE {cast(Deref(storage_, ptr), T)}
             \cup UNION {{cast(AnyOf(thr[w].value), T), Garbage} : w \in Writers(ptr)}

\* get<T>: the cast of what getAny returned, or the throw.
Cast(t, T) ==
    /\ thr[t].pc = "cast"
    /\ \E r \in CastResults(t, T) : thr' = [thr EXCEPT ![t].pc = "done", ![t].ret = r]
    /\ UNCHANGED <<store, last, nops, mutex_>>

\* setPortType and addSubtreeRemapping take the mutex for their whole body.
ConcSetPortType(t, b, key, T) ==
    /\ thr[t].pc \in {"idle", "done"}
    /\ b \in alive
    /\ mutex_[b] = NoThread
    /\ nops < MaxOps
    /\ nops' = nops + 1
    /\ storage_' = setPortType(storage_, b, key, T)
    /\ thr' = [thr EXCEPT ![t] = Idle]
    /\ UNCHANGED <<internal_to_external_, parent_bb_, alive, last, mutex_>>

ConcAddSubtreeRemapping(t, b, internal, external) ==
    /\ thr[t].pc \in {"idle", "done"}
    /\ b \in alive
    /\ mutex_[b] = NoThread
    /\ nops < MaxOps
    /\ nops' = nops + 1
    /\ internal_to_external_' = addSubtreeRemapping(internal_to_external_, b, internal, external)
    /\ thr' = [thr EXCEPT ![t] = Idle]
    /\ UNCHANGED <<storage_, parent_bb_, alive, last, mutex_>>

NextConc ==
    \E t \in Threads :
        \/ \E b \in Boards, key \in Keys, value \in Values : CallSet(t, b, key, value)
        \/ \E b \in Boards, key \in Keys : CallGet(t, b, key)
        \/ \E b \in Boards, key \in Keys : CallGetAny(t, b, key)
        \/ Acquire(t)
        \/ GetAnyBody(t)
        \/ SetBody(t)
        \/ SetInsert(t)
        \/ SetEmplace(t)
        \/ SetAssign(t)
        \/ Unlock(t)
        \/ \E T \in Types : Cast(t, T)
        \/ \E b \in Boards, key \in Keys, T \in Types : ConcSetPortType(t, b, key, T)
        \/ \E b \in Boards, internal \in Keys, external \in Keys :
              ConcAddSubtreeRemapping(t, b, internal, external)

SpecConc == Init /\ [][NextConc]_vars

\* ------------------------------------------------------------- properties

\* The step is a call of Spec (not a stuttering step).
IsCall(op) == nops' = nops + 1 /\ last'.op = op

\* b has a live parent and a remapping registered for key (from the state alone).
Remapped(b, key) ==
    /\ parent_bb_[b] \in alive
    /\ key \in DOMAIN internal_to_external_[b]

HasEntry(st, b, key) == b # NoBoard /\ key \in DOMAIN st[b]
\* The value of the Entry of key on b, EmptyAny when there is no Entry.
LocalValue(st, b, key) == IF HasEntry(st, b, key) THEN st[b][key].value ELSE EmptyAny

\* C1: with a live parent P and a remapping a -> b registered on the child C,
\* right after a C.set(a, v) that succeeded, P.get<T>(b) returns v and
\* C.get<T>(a) returns v.
C1_RemapForwarding ==
    (last.op = "set" /\ last.result = Ok /\ Remapped(last.bb, last.key)) =>
        LET P == parent_bb_[last.bb]
            ext == internal_to_external_[last.bb][last.key]
        IN  /\ get(P, ext, last.type) = Returned(last.type, last.val)
            /\ get(last.bb, last.key, last.type) = Returned(last.type, last.val)

\* A forwarded set has succeeded and the parent holds the value under the
\* external key.
C1_Witness ==
    /\ last.op = "set" /\ last.result = Ok /\ Remapped(last.bb, last.key)
    /\ LocalValue(storage_, parent_bb_[last.bb], internal_to_external_[last.bb][last.key])
         = AnyOf([type |-> last.type, val |-> last.val])
    /\ last.key # internal_to_external_[last.bb][last.key]

\* The Blackboard and key that key on b resolves to: the first Blackboard up
\* the chain of parents that has no remapping for the name or no live parent.
RECURSIVE ResolvesTo(_, _)
ResolvesTo(b, key) ==
    IF Remapped(b, key)
    THEN ResolvesTo(parent_bb_[b], internal_to_external_[b][key])
    ELSE <<b, key>>

\* C2: a set or get of key on B resolves, one hop per level, to the first
\* Blackboard up the chain without a remapping for the name or without a live
\* parent: a successful set stores its value there, getAny points there, and no
\* value of another Blackboard changes. In a chain G <- P <- C with C remapping
\* a -> x, G.get(y) returns the value when P remaps x -> y; when P has no
\* remapping for x the value is at P's x and G is unchanged.
C2_RemapChain ==
    [][\A C \in Boards, a \in Keys, value \in Values :
        (IsCall("set") /\ last'.result = Ok /\ last'.bb = C /\ last'.key = a
           /\ last'.type = value.type /\ last'.val = value.val) =>
        LET T == value.type
            v == AnyOf(value)
            r == ResolvesTo(C, a)
        IN  /\ LocalValue(storage_', r[1], r[2]) = v
            /\ getAny(C, a)' = PtrTo(r[1], r[2])
            /\ \A b \in Boards \ {r[1]}, k \in Keys :
                  LocalValue(storage_', b, k) = LocalValue(storage_, b, k)
            /\ Remapped(C, a) =>
                  LET P == parent_bb_[C]
                      x == internal_to_external_[C][a]
                      G == parent_bb_[P]
                  IN  IF Remapped(P, x)
                      THEN get(G, internal_to_external_[P][x], T)' = Returned(T, value.val)
                      ELSE /\ LocalValue(storage_', P, x) = v
                           /\ G # NoBoard => storage_'[G] = storage_[G]]_vars

\* A set on C has gone through two remappings, C's a -> x and P's x -> y, and
\* the value is at the grandparent's y.
C2_Witness ==
    /\ last.op = "set" /\ last.result = Ok /\ Remapped(last.bb, last.key)
    /\ LET P == parent_bb_[last.bb]
           x == internal_to_external_[last.bb][last.key]
       IN  /\ Remapped(P, x)
           /\ LocalValue(storage_, parent_bb_[P], internal_to_external_[P][x])
                = AnyOf([type |-> last.type, val |-> last.val])
           /\ LocalValue(storage_, P, x) = EmptyAny

\* The call of the step is op on key of b.
IsCallOn(op, b, key) == IsCall(op) /\ last'.bb = b /\ last'.key = key
IsSetOf(b, key, value) ==
    IsCallOn("set", b, key) /\ last'.type = value.type /\ last'.val = value.val

\* The types a lock on the Entry could be of, if a first set locked as a
\* declaration does.
EstablishedTypes(entry) ==
    IF entry.locked_port_type # NoType THEN {entry.locked_port_type}
    ELSE {T \in Types : AnyType(T) = entry.value.type}

\* C3 as claimed: once the Entry that key resolves to has a type T1, declared
\* by setPortType or given by the first set, a set of a non-string value of
\* another type T2 fails with TypeLockViolation and leaves the value.
C3_LockBySetOrDeclaration ==
    [][\A b \in Boards, key \in Keys, value \in Values :
        LET r == ResolvesTo(b, key)
        IN  (/\ IsSetOf(b, key, value)
             /\ HasEntry(storage_, r[1], r[2])
             /\ EstablishedTypes(storage_[r[1]][r[2]]) # {}
             /\ value.type \notin EstablishedTypes(storage_[r[1]][r[2]])
             /\ value.type # "std::string")
            => /\ last'.result = TypeLockViolation
               /\ storage_'[r[1]][r[2]] = storage_[r[1]][r[2]]]_vars

\* C3: once the Entry that key resolves to has a locked type T1 (declared by
\* setPortType; a set that creates the Entry it writes leaves it unlocked), a
\* set of a value whose type T2 and whose erased type both differ from T1 and
\* that is not a string fails with TypeLockViolation and leaves the Entry as
\* it was: get<T1>(key) returns what it returned before, v1 if v1 was stored.
C3_DeclaredLock ==
    [][\A b \in Boards, key \in Keys, value \in Values, T1 \in Types :
        LET r == ResolvesTo(b, key)
        IN  (/\ IsSetOf(b, key, value)
             /\ HasEntry(storage_, r[1], r[2])
             /\ storage_[r[1]][r[2]].locked_port_type = T1
             /\ value.type # T1
             /\ AnyType(value.type) # T1
             /\ value.type # "std::string")
            => /\ last'.result = TypeLockViolation
               /\ storage_'[r[1]][r[2]] = storage_[r[1]][r[2]]
               /\ get(b, key, T1)' = get(b, key, T1)
               /\ \A v1 \in 1..MaxVal :
                     storage_[r[1]][r[2]].value = AnyOf([type |-> T1, val |-> v1])
                     => get(b, key, T1)' = Returned(T1, v1)]_vars

\* A set has failed on an Entry with a declared type that holds a value of
\* that type, which get still returns.
C3_Witness ==
    /\ last.op = "set" /\ last.result = TypeLockViolation
    /\ LET r == ResolvesTo(last.bb, last.key)
       IN  /\ HasEntry(storage_, r[1], r[2])
           /\ LET e == storage_[r[1]][r[2]]
              IN  /\ e.locked_port_type \in Types
                  /\ e.value.type = AnyType(e.locked_port_type)
                  /\ get(last.bb, last.key, e.locked_port_type)
                       = Returned(e.locked_port_type, e.value.val)

\* C4: a set that fails with TypeLockViolation leaves the entries and the
\* remappings of every Blackboard as they were.
C4_FailedSetChangesNothing ==
    [][(IsCall("set") /\ last'.result = TypeLockViolation) =>
        /\ storage_' = storage_
        /\ internal_to_external_' = internal_to_external_]_vars

\* C9: a locked type that is not absent never changes while the Blackboard
\* lives, and no set changes the locked type of an Entry that is there: a set
\* changes at most the value of the Entry it resolves to.
C9_LockedTypeNeverChanges ==
    [][\A b \in Boards, key \in Keys :
        (b \in alive' /\ HasEntry(storage_, b, key)) =>
            LET e == storage_[b][key]
            IN  /\ HasEntry(storage_', b, key)
                /\ e.locked_port_type # NoType
                     => storage_'[b][key].locked_port_type = e.locked_port_type
                /\ IsCall("set") =>
                     /\ storage_'[b][key].locked_port_type = e.locked_port_type
                     /\ storage_'[b][key].value # e.value =>
                          /\ last'.result = Ok
                          /\ <<b, key>> = ResolvesTo(last'.bb, last'.key)]_vars

\* A set has replaced the value of an Entry whose locked type is another type
\* than the one set was called with.
C9_Witness ==
    /\ last.op = "set" /\ last.result = Ok
    /\ LET r == ResolvesTo(last.bb, last.key)
       IN  /\ HasEntry(storage_, r[1], r[2])
           /\ storage_[r[1]][r[2]].locked_port_type \in Types \ {last.type}
           /\ storage_[r[1]][r[2]].value = AnyOf([type |-> last.type, val |-> last.val])

\* C10 as claimed: once a remapping is registered for key on b, no later read
\* of key on b gives b's own Entry and no later set of key on b writes it.
C10_RemappedForEver ==
    [][\A b \in Boards, key \in Keys :
        key \in DOMAIN internal_to_external_[b] =>
            /\ IsCallOn("set", b, key)
                 => LocalValue(storage_', b, key) = LocalValue(storage_, b, key)
            /\ (IsCallOn("getAny", b, key) \/ IsCallOn("get", b, key)
                   \/ IsCallOn("tryGet", b, key))
                 => getAny(b, key) # PtrTo(b, key)]_vars

\* C10: while b has a live parent, a key with a remapping registered on b
\* never behaves as a key of b: no read of it gives b's own Entry and no set
\* of it writes the value of b's own Entry. Once b has no live parent the key
\* is a key of b again: set writes b's Entry and a read gives b's Entry or
\* nothing.
C10_RemappedWhileParentLives ==
    [][\A b \in Boards, key \in Keys, value \in Values :
        key \in DOMAIN internal_to_external_[b] =>
            IF parent_bb_[b] \in alive
            THEN /\ IsCallOn("set", b, key)
                      => LocalValue(storage_', b, key) = LocalValue(storage_, b, key)
                 /\ (IsCallOn("getAny", b, key) \/ IsCallOn("get", b, key)
                        \/ IsCallOn("tryGet", b, key))
                      => getAny(b, key) # PtrTo(b, key)
            ELSE /\ (IsSetOf(b, key, value) /\ last'.result = Ok)
                      => LocalValue(storage_', b, key) = AnyOf(value)
                 /\ IsCallOn("getAny", b, key)
                      => last'.result = IF HasEntry(storage_, b, key)
                                        THEN PtrTo(b, key) ELSE NullPtr]_vars

\* A set of a remapped key was forwarded although the Blackboard has an Entry
\* of its own for the key, left by an earlier forwarded set of another type.
C10_Witness ==
    /\ last.op = "set" /\ last.result = Ok /\ Remapped(last.bb, last.key)
    /\ HasEntry(storage_, last.bb, last.key)
    /\ storage_[last.bb][last.key].locked_port_type \in Types \ {last.type}
    /\ storage_[last.bb][last.key].value = EmptyAny

\* ---------------------------------------------------- properties of SpecConc

\* C5 as claimed: a get running while another thread sets the same key never
\* gets a partly written value: what its cast reads is the value before the
\* set or the value of the set.
C5_NoPartialValue == \A t \in Threads : thr[t].ret # Garbage

\* The Blackboards above b.
AncestorsOf[b \in Boards] ==
    IF parent_bb_[b] = NoBoard THEN {}
    ELSE {parent_bb_[b]} \cup AncestorsOf[parent_bb_[b]]

HeldBy(t) == {thr[t].held[i] : i \in 1..Len(thr[t].held)}
\* t waits for a mutex that a thread holds.
Blocked(t) == thr[t].pc = "lock" /\ mutex_[thr[t].cur] # NoThread

\* C6: no deadlock: a thread asks only for the mutex of a Blackboard above
\* all those whose mutex it holds, never for one it holds, a mutex is held by
\* the thread that has it in its frames, and no set of threads wait for each
\* other in a cycle.
C6_NoDeadlock ==
    /\ \A t \in Threads :
          thr[t].pc = "lock" =>
              /\ thr[t].cur \notin HeldBy(t)
              /\ \A h \in HeldBy(t) : thr[t].cur \in AncestorsOf[h]
    /\ \A b \in Boards :
          mutex_[b] # NoThread => b \in HeldBy(mutex_[b])
    /\ \A S \in SUBSET Threads \ {{}} :
          ~ \A t \in S : Blocked(t) /\ mutex_[thr[t].cur] \in S

\* A thread that holds the mutex of a child waits for the mutex of the parent,
\* which another thread holds.
C6_Witness ==
    \E t \in Threads, u \in Threads :
        /\ t # u
        /\ thr[t].pc = "lock" /\ Len(thr[t].held) >= 1
        /\ mutex_[thr[t].cur] = u

\* Every thread has made one call, a set on one Blackboard, each on a key of
\* its own without a remapping, and all have returned.
ConcurrentSetsDone ==
    /\ nops = NumThreads
    /\ \A t \in Threads :
          /\ thr[t].pc = "done" /\ thr[t].op = "set"
          /\ thr[t].key \notin DOMAIN internal_to_external_[thr[t].bb]
    /\ \A t \in Threads, u \in Threads :
          /\ thr[t].bb = thr[u].bb
          /\ t # u => thr[t].key # thr[u].key

\* C7: threads that set keys of their own, without remapping, on one
\* Blackboard all succeed, and once all have returned every key holds the
\* value set to it.
C7_NoLostUpdate ==
    ConcurrentSetsDone =>
        \A t \in Threads :
            /\ thr[t].ret = Ok
            /\ HasEntry(storage_, thr[t].bb, thr[t].key)
            /\ storage_[thr[t].bb][thr[t].key].value = AnyOf(thr[t].value)
            /\ get(thr[t].bb, thr[t].key, thr[t].value.type)
                 = Returned(thr[t].value.type, thr[t].value.val)

C7_Witness ==
    /\ ConcurrentSetsDone
    /\ \A t \in Threads : HasEntry(storage_, thr[t].bb, thr[t].key)

\* C8: a thread that is in no call, or whose call has returned or thrown,
\* holds no mutex: every Blackboard's mutex can be taken.
C8_LocksReleased ==
    \A t \in Threads :
        thr[t].pc \in {"idle", "done", "cast"} =>
            /\ thr[t].held = <<>>
            /\ \A b \in Boards : mutex_[b] # t

\* A forwarded set has failed with TypeLockViolation at the parent, and every
\* mutex is free.
C8_Witness ==
    \E t \in Threads :
        /\ thr[t].pc = "done" /\ thr[t].op = "set"
        /\ thr[t].ret = TypeLockViolation
        /\ thr[t].cur # thr[t].bb
        /\ \A b \in Boards : mutex_[b] = NoThread

\* ------------------------------------------------- more properties of Spec

\* The variable a tryGet was called with.
OutOf(call) == [type |-> call.type, val |-> call.val]

\* C11: for a key that resolves, through the remappings, to no Entry, getAny
\* returns nullptr without throwing, tryGet returns false and leaves its
\* output as it was, get<T> throws MissingKey, and none of the three changes
\* the entries or the remappings of a Blackboard.
C11_MissingKey ==
    [][\A b \in Boards, key \in Keys :
        LET r == ResolvesTo(b, key)
        IN  ~HasEntry(storage_, r[1], r[2]) =>
              /\ IsCallOn("getAny", b, key) => last'.result = NullPtr
              /\ IsCallOn("tryGet", b, key) =>
                    last'.result = [ret |-> False, value |-> OutOf(last')]
              /\ IsCallOn("get", b, key) => last'.result = MissingKey
              /\ (IsCallOn("getAny", b, key) \/ IsCallOn("tryGet", b, key)
                     \/ IsCallOn("get", b, key))
                    => /\ storage_' = storage_
                       /\ internal_to_external_' = internal_to_external_]_vars

\* A tryGet of a remapped key has returned false: the parent has no Entry for
\* the external key, while the Blackboard itself has one for the internal key.
C11_Witness ==
    /\ last.op = "tryGet" /\ last.result.ret = False
    /\ last.result.value = OutOf(last)
    /\ Remapped(last.bb, last.key)
    /\ HasEntry(storage_, last.bb, last.key)

\* C12: a set of a string on a key whose Entry has a locked type that is not
\* string succeeds without TypeLockViolation and replaces the stored value;
\* the locked type of the Entry stays the non-string type.
C12_StringExemption ==
    [][\A b \in Boards, key \in Keys, value \in Values :
        LET r == ResolvesTo(b, key)
        IN  (/\ IsSetOf(b, key, value)
             /\ value.type = "std::string"
             /\ HasEntry(storage_, r[1], r[2])
             /\ storage_[r[1]][r[2]].locked_port_type \in Types \ {"std::string"})
            => /\ last'.result = Ok
               /\ storage_'[r[1]][r[2]].value = AnyOf(value)
               /\ storage_'[r[1]][r[2]].locked_port_type
                    = storage_[r[1]][r[2]].locked_port_type]_vars

\* A set of a string has replaced an integer in an Entry locked to an integer
\* type.
C12_Witness ==
    /\ last.op = "set" /\ last.result = Ok /\ last.type = "std::string"
    /\ last.found /\ last.previous_any.type = "int64_t"
    /\ LET r == ResolvesTo(last.bb, last.key)
       IN  /\ HasEntry(storage_, r[1], r[2])
           /\ storage_[r[1]][r[2]].locked_port_type \in {"int", "int64_t"}
           /\ isString(storage_[r[1]][r[2]].value)

\* C13: on one Blackboard, a set(k, v) that succeeded followed, with no call
\* in between, by get<T>(k) of the type of v returns v, for a key of the
\* Blackboard and for a remapped key.
C13_RoundTrip ==
    [][\A b \in Boards, key \in Keys, value \in Values :
        (/\ last.op = "set" /\ last.result = Ok
         /\ last.bb = b /\ last.key = key
         /\ last.type = value.type /\ last.val = value.val
         /\ IsCallOn("get", b, key) /\ last'.type = value.type)
        => last'.result = Returned(value.type, value.val)]_vars

\* A get of a remapped key has returned the value from the parent right after
\* the set of the key that was forwarded there: of the three calls made, one
\* registered the remapping, one left the local Entry without a value and the
\* value at the parent, and the last is the get.
C13_Witness ==
    /\ nops = 3
    /\ last.op = "get" /\ last.result = Returned(last.type, 1)
    /\ Remapped(last.bb, last.key)
    /\ HasEntry(storage_, last.bb, last.key)
    /\ storage_[last.bb][last.key] = EntryOfType(last.type)
    /\ LET P == parent_bb_[last.bb]
           ext == internal_to_external_[last.bb][last.key]
       IN  /\ ~Remapped(P, ext)
           /\ LocalValue(storage_, P, ext) = AnyOf([type |-> last.type, val |-> 1])

\* C1 and C2 were created with the same parent P.
Siblings(C1, C2, P) ==
    C1 # C2 /\ P # NoBoard /\ parent_bb_[C1] = P /\ parent_bb_[C2] = P

\* C14: for siblings C1 and C2 of a parent P, a set on C1 of a key without a
\* remapping on C1 changes no Entry of C2 or of P, and what every key reads
\* as on C2 and on P stays as it was: a key set only on C1 stays absent there.
C14_SiblingIsolation ==
    [][\A C1 \in Boards, C2 \in Boards, key \in Keys, T \in Types :
        (/\ Siblings(C1, C2, parent_bb_[C1])
         /\ key \notin DOMAIN internal_to_external_[C1]
         /\ IsCallOn("set", C1, key))
        => LET P == parent_bb_[C1]
           IN  /\ storage_'[C2] = storage_[C2]
               /\ storage_'[P] = storage_[P]
               /\ \A k \in Keys :
                     /\ getAny(C2, k)' = getAny(C2, k)
                     /\ getAny(P, k)' = getAny(P, k)
                     /\ get(C2, k, T)' = get(C2, k, T)
                     /\ get(P, k, T)' = get(P, k, T)]_vars

\* A key has been set on one of two siblings, without a remapping, and is
\* absent from the other sibling, which remaps it to the parent, and from the
\* parent.
C14_Witness ==
    \E C2 \in Boards :
        /\ last.op = "set" /\ last.result = Ok
        /\ Siblings(last.bb, C2, parent_bb_[last.bb])
        /\ last.key \notin DOMAIN internal_to_external_[last.bb]
        /\ HasEntry(storage_, last.bb, last.key)
        /\ Remapped(C2, last.key)
        /\ getAny(C2, last.key) = NullPtr
        /\ \A k \in Keys : getAny(parent_bb_[last.bb], k) = NullPtr

\* C16: when the parent of a Blackboard has been destroyed, or it was created
\* without one, its remappings are ignored: getAny, get, tryGet and set of a
\* key with a remapping read and write the entries of the Blackboard itself
\* only, and give what they give for a key without a remapping.
C16_DeadParentLocal ==
    [][\A b \in Boards, key \in Keys, value \in Values :
        (key \in DOMAIN internal_to_external_[b] /\ parent_bb_[b] \notin alive) =>
            LET found == HasEntry(storage_, b, key)
                T == value.type
            IN  /\ IsCallOn("getAny", b, key)
                     => last'.result = IF found THEN PtrTo(b, key) ELSE NullPtr
                /\ (IsCallOn("get", b, key) /\ last'.type = T)
                     => last'.result = IF found THEN cast(storage_[b][key].value, T)
                                       ELSE MissingKey
                /\ (IsCallOn("tryGet", b, key) /\ ~found)
                     => last'.result.ret = False
                /\ (IsCallOn("getAny", b, key) \/ IsCallOn("get", b, key)
                       \/ IsCallOn("tryGet", b, key))
                     => storage_' = storage_
                /\ IsSetOf(b, key, value) =>
                     /\ \A c \in Boards \ {b} : storage_'[c] = storage_[c]
                     /\ \A k \in Keys \ {key} :
                           HasEntry(storage_', b, k) = HasEntry(storage_, b, k)
                     /\ IF found /\ LockViolated(storage_[b][key], T, AnyOf(value))
                        THEN last'.result = TypeLockViolation /\ storage_' = storage_
                        ELSE /\ last'.result = Ok
                             /\ LocalValue(storage_', b, key) = AnyOf(value)]_vars

\* A set of a key with a remapping, on a Blackboard whose parent has been
\* destroyed, has written the Entry of the Blackboard itself.
C16_Witness ==
    /\ last.op = "set" /\ last.result = Ok
    /\ last.key \in DOMAIN internal_to_external_[last.bb]
    /\ parent_bb_[last.bb] # NoBoard /\ parent_bb_[last.bb] \notin alive
    /\ LocalValue(storage_, last.bb, last.key)
         = AnyOf([type |-> last.type, val |-> last.val])

\* C17: a set of a key that is not forwarded and has no Entry creates an Entry
\* holding the value, without a locked type; set alone does not lock the key:
\* a set of another type that is not a string, directly after it on that key,
\* succeeds and replaces the value, and the Entry still has no locked type.
C17_SetDoesNotLock ==
    [][\A b \in Boards, key \in Keys, value \in Values :
        (IsSetOf(b, key, value) /\ ~Forwards(b, key)) =>
            /\ ~HasEntry(storage_, b, key) =>
                  /\ last'.result = Ok
                  /\ HasEntry(storage_', b, key)
                  /\ storage_'[b][key].value = AnyOf(value)
                  /\ storage_'[b][key].locked_port_type = NoType
            /\ (/\ last.op = "set" /\ last.bb = b /\ last.key = key
                 /\ last.result = Ok /\ ~last.found
                 /\ value.type # last.type /\ value.type # "std::string") =>
                  /\ last'.result = Ok
                  /\ storage_'[b][key].value = AnyOf(value)
                  /\ storage_'[b][key].locked_port_type = NoType]_vars

\* The first call set a string on a key, the second has set an integer on it:
\* the Entry holds the integer and has no locked type.
C17_Witness ==
    /\ nops = 2
    /\ last.op = "set" /\ last.result = Ok /\ last.type = "int"
    /\ last.found /\ isString(last.previous_any)
    /\ HasEntry(storage_, last.bb, last.key)
    /\ storage_[last.bb][last.key] = EntryOfAny(AnyOf([type |-> "int", val |-> last.val]))

\* C18 as claimed: get<T> throws MissingKey, and tryGet returns false without
\* writing its output, whenever the key resolves to no Entry with a value:
\* when there is no Entry, and when the Entry is there but holds no value (made
\* by setPortType before any set, or left by a forwarding set and read on the
\* Blackboard itself once the parent is destroyed).
C18_NoValueIsMissingKey ==
    [][\A b \in Boards, key \in Keys :
        LET r == ResolvesTo(b, key)
        IN  LocalValue(storage_, r[1], r[2]) = EmptyAny =>
              /\ IsCallOn("get", b, key) => last'.result = MissingKey
              /\ IsCallOn("tryGet", b, key) =>
                    last'.result = [ret |-> False, value |-> OutOf(last')]]_vars

\* C19: with a remapping for key registered on b before any set of key, and
\* the parent of b alive, a forwarded set<T>(key, v) stores v in the Entry of
\* the ancestor the key resolves to only: the first forwarded set creates the
\* Entry of key on b, without a value and with T as its type, and no later
\* forwarded set, of that type or another, changes the Entry of key on b.
C19_Placeholder ==
    [][\A b \in Boards, key \in Keys, value \in Values :
        (IsSetOf(b, key, value) /\ Remapped(b, key)) =>
            LET r == ResolvesTo(b, key)
            IN  /\ HasEntry(storage_', b, key)
                /\ IF HasEntry(storage_, b, key)
                   THEN storage_'[b][key] = storage_[b][key]
                   ELSE storage_'[b][key] = EntryOfType(value.type)
                /\ last'.result = Ok => LocalValue(storage_', r[1], r[2]) = AnyOf(value)
                /\ \A c \in Boards, k \in Keys :
                      <<c, k>> # r =>
                          LocalValue(storage_', c, k) = LocalValue(storage_, c, k)]_vars

\* A second forwarded set, of another type than the first, has replaced the
\* value at the parent, and the Entry of the Blackboard itself is as the first
\* forwarded set made it: no value, the type of the first set.
C19_Witness ==
    /\ nops = 3
    /\ last.op = "set" /\ last.result = Ok /\ Remapped(last.bb, last.key)
    /\ last.found /\ last.previous_any # EmptyAny
    /\ last.previous_any.type # AnyType(last.type)
    /\ HasEntry(storage_, last.bb, last.key)
    /\ storage_[last.bb][last.key].value = EmptyAny
    /\ AnyType(storage_[last.bb][last.key].locked_port_type) = last.previous_any.type
    /\ LET r == ResolvesTo(last.bb, last.key)
       IN  LocalValue(storage_, r[1], r[2]) = AnyOf([type |-> last.type, val |-> last.val])

\* C20: for a key with a remapping and a live parent, a set fails with
\* TypeLockViolation exactly when the locked type of the Entry in the ancestor
\* the key resolves to rejects the value: the type on the forwarding
\* Blackboard's own Entry of the key, such as the one left by an earlier
\* forwarded set of another type, never makes a forwarded set fail.
C20_LocalMarkerIgnored ==
    [][\A b \in Boards, key \in Keys, value \in Values :
        (IsSetOf(b, key, value) /\ Remapped(b, key)) =>
            LET r == ResolvesTo(b, key)
                rejected == /\ HasEntry(storage_, r[1], r[2])
                            /\ LockViolated(storage_[r[1]][r[2]], value.type, AnyOf(value))
            IN  last'.result = IF rejected THEN TypeLockViolation ELSE Ok]_vars

\* A forwarded set has succeeded although the type on the Blackboard's own
\* Entry of the key, left by a forwarded set of another type, would reject
\* its value.
C20_Witness ==
    /\ last.op = "set" /\ last.result = Ok /\ Remapped(last.bb, last.key)
    /\ last.found
    /\ HasEntry(storage_, last.bb, last.key)
    /\ storage_[last.bb][last.key].value = EmptyAny
    /\ LockViolated(storage_[last.bb][last.key], last.type,
                    AnyOf([type |-> last.type, val |-> last.val]))

\* ------------------------------------------- more properties of SpecConc

\* C15 as claimed: a thread that forwards a read or a write to the parent has
\* released the mutex of the child by the time it runs the forwarded call
\* under the mutex of the parent: no thread holds the mutex of two
\* Blackboards at once.
C15_ChildLockReleased ==
    \A t \in Threads : Cardinality({b \in Boards : mutex_[b] = t}) <= 1

====
